---- MODULE Spec2Model ----
(***************************************************************************)
(* Model of package fd (src/fd.go): passing open file descriptors over a   *)
(* Unix domain socket with SCM_RIGHTS control messages.                    *)
(*                                                                         *)
(* Two processes share one connection.  Process "A" owns some open files   *)
(* and calls Put; process "B" calls Get.  Each process has a descriptor    *)
(* table (fd -> open resource); the kernel holds the datagram in flight    *)
(* together with the references to the open resources it carries.  The     *)
(* runs explored are those in which a datagram is received before the next *)
(* one is sent, and in which the caller of Get closes the files it was     *)
(* given before anything else happens.                                     *)
(*                                                                         *)
(* The kernel side follows Linux: a rights message is cut to the number    *)
(* of descriptors the rest of the control buffer has room for, another     *)
(* message is cut to the rest of the buffer, and what a receive does not   *)
(* fill keeps the zero bytes of make([]byte, n).  A datagram may carry     *)
(* several ancillary units (a peer that does its own sendmsg, credentials  *)
(* added by the kernel); Put itself always sends exactly one.              *)
(*                                                                         *)
(* Ancillary buffers are modelled at the level of 4-byte words with the    *)
(* layout of a 64-bit little-endian platform: a control-message header is  *)
(* 16 bytes (an 8-byte length, a 4-byte level, a 4-byte type) and lengths  *)
(* are aligned to 8 bytes.  All offsets and lengths below are in BYTES as  *)
(* in the source; a buffer is a sequence of words.                         *)
(***************************************************************************)
EXTENDS Integers, Sequences, FiniteSets, TLC

VARIABLES
    fdtab,   \* fdtab[p][fd]: the open resource descriptor fd of process p names, or NoRes
    inflight, \* the datagram sent by A and not yet received by B: none or one
    last     \* the most recent call: its arguments, its result, the syscalls it made

vars == <<fdtab, inflight, last>>

----------------------------------------------------------------------------
(* Bounds of the model *)

\* largest value of Get's num argument that is tried
MaxNum == 13
\* largest number of handles given to one Put call
MaxPut == 3
\* Get receives only in a process that holds at most this many open files
\* besides its connection
MaxHeld == 0

----------------------------------------------------------------------------
(* Platform constants of package syscall (64-bit) *)

SizeofCmsghdr == 16
SizeofPtr == 8
SOL_SOCKET == 1
SCM_RIGHTS == 1
SCM_CREDENTIALS == 2
\* the width the source assumes for one descriptor: CmsgSpace(num*4)
FdWidth == 4

----------------------------------------------------------------------------
(* Processes, descriptors, resources *)

Sender == "A"
Receiver == "B"
Procs == {Sender, Receiver}

NoRes == "none"
Sock(p) == IF p = "A" THEN "sockA" ELSE "sockB"
\* (the open files process A owns at the start are "r1" and "r2", see Init)

\* the descriptor of the connection's own socket in each process
ConnFd == 0
\* size of a process's descriptor table
FdLimit == MaxHeld + MaxPut + 2
Fds == 0..(FdLimit - 1)

Min(a, b) == IF a < b THEN a ELSE b

FreeFds(tab) == {fd \in Fds : tab[fd] = NoRes}
LowestFree(tab) == CHOOSE fd \in FreeFds(tab) : \A g \in FreeFds(tab) : fd <= g

\* the handles (open descriptors other than the connection) a process owns
Handles(tab) == {fd \in Fds : fd # ConnFd /\ tab[fd] # NoRes}

----------------------------------------------------------------------------
(* Package syscall: sizing, encoding and decoding of control messages *)

cmsgAlignOf(salen) == ((salen + SizeofPtr - 1) \div SizeofPtr) * SizeofPtr

CmsgLen(datalen) == cmsgAlignOf(SizeofCmsghdr) + datalen

CmsgSpace(datalen) == cmsgAlignOf(SizeofCmsghdr) + cmsgAlignOf(datalen)

\* make([]byte, n): n zero bytes, as n/4 zero words
Zeros(nbytes) == [i \in 1..(nbytes \div 4) |-> 0]

\* the words of buffer b in the byte range [from, to)
SubWords(b, from, to) ==
    [i \in 1..(IF to > from THEN (to - from) \div 4 ELSE 0) |-> b[from \div 4 + i]]

\* buffer b with the words ws stored at byte offset off (what does not fit is cut)
WriteWords(b, off, ws) ==
    [i \in 1..Len(b) |->
        IF i > off \div 4 /\ i <= off \div 4 + Len(ws) THEN ws[i - off \div 4] ELSE b[i]]

\* a Cmsghdr: Len uint64 (two words, low word first), Level int32, Type int32.
\* Every length written here is below 2^32, so the high word of Len is 0.
HeaderWords(len, level, type) == <<len, 0, level, type>>

\* the Len field read back from byte offset i of b; a length with a non-zero
\* high word is beyond every buffer, which HugeLen stands for
HugeLen == 2147483647
HeaderLen(b, i) == IF b[i \div 4 + 2] # 0 THEN HugeLen ELSE b[i \div 4 + 1]

\* UnixRights(fds...): one SCM_RIGHTS message holding the descriptors, in order
UnixRights(fds) ==
    LET datalen == Len(fds) * 4
    IN  WriteWords(Zeros(CmsgSpace(datalen)), 0,
                   HeaderWords(CmsgLen(datalen), SOL_SOCKET, SCM_RIGHTS) \o fds)

\* ParseSocketControlMessage(b): every message of b, or no message and EINVAL
\* as soon as one header's length is below the header size or beyond the buffer
RECURSIVE ParseFrom(_, _, _)
ParseFrom(b, i, msgs) ==
    IF i + CmsgLen(0) > Len(b) * 4
    THEN [msgs |-> msgs, err |-> "nil"]
    ELSE LET hlen == HeaderLen(b, i)
         IN  IF hlen < SizeofCmsghdr \/ hlen > Len(b) * 4 - i
             THEN [msgs |-> <<>>, err |-> "EINVAL"]
             ELSE ParseFrom(b, i + cmsgAlignOf(hlen),
                      Append(msgs, [Len   |-> hlen,
                                    Level |-> b[i \div 4 + 3],
                                    Type  |-> b[i \div 4 + 4],
                                    Data  |-> SubWords(b, i + cmsgAlignOf(SizeofCmsghdr),
                                                       i + hlen)]))

ParseSocketControlMessage(b) == ParseFrom(b, 0, <<>>)

\* ParseUnixRights(m): the descriptors of an SCM_RIGHTS message, EINVAL for
\* a message of another level or type
ParseUnixRights(m) ==
    IF m.Level # SOL_SOCKET THEN [fds |-> <<>>, err |-> "EINVAL"]
    ELSE IF m.Type # SCM_RIGHTS THEN [fds |-> <<>>, err |-> "EINVAL"]
    ELSE [fds |-> m.Data, err |-> "nil"]

----------------------------------------------------------------------------
(* The kernel side of sendmsg and recvmsg on the socket *)

\* An ancillary unit in flight: a rights unit carries references to open
\* resources (files), any other unit carries data words.
RightsUnit(files) == [Level |-> SOL_SOCKET, Type |-> SCM_RIGHTS, files |-> files, data |-> <<>>]
CredUnit == [Level |-> SOL_SOCKET, Type |-> SCM_CREDENTIALS, files |-> <<>>, data |-> <<7, 7, 7>>]
IsRights(u) == u.Level = SOL_SOCKET /\ u.Type = SCM_RIGHTS

\* sendmsg: the kernel reads the control buffer oob of the sender and takes a
\* reference to the resource behind every descriptor of a rights message
KernelSend(tab, oob) ==
    LET msgs == ParseSocketControlMessage(oob).msgs
    IN  [k \in 1..Len(msgs) |->
            IF msgs[k].Level = SOL_SOCKET /\ msgs[k].Type = SCM_RIGHTS
            THEN RightsUnit([j \in 1..Len(msgs[k].Data) |-> tab[msgs[k].Data[j]]])
            ELSE [Level |-> msgs[k].Level, Type |-> msgs[k].Type,
                  files |-> <<>>, data |-> msgs[k].Data]]

\* the first n resources of files installed at the lowest free descriptors of tab
RECURSIVE InstallFds(_, _, _, _)
InstallFds(tab, files, n, fds) ==
    IF Len(fds) >= n
    THEN [tab |-> tab, fds |-> fds]
    ELSE LET fd == LowestFree(tab)
         IN  InstallFds([tab EXCEPT ![fd] = files[Len(fds) + 1]], files, n, Append(fds, fd))

\* recvmsg: the units of one datagram are stored into the control buffer buf
\* from byte offset off on, in order.  A rights unit installs as many
\* descriptors as the rest of the buffer has room for, (rest - header) / 4,
\* and stores nothing when that is none; another unit is cut to the rest of
\* the buffer.  The bytes of buf that no unit reaches are left as they were.
\* installed: the descriptors installed; stored: how many messages were stored;
\* oobn: the number of bytes of buf that were filled.
RECURSIVE KernelRecv(_, _, _, _, _, _)
KernelRecv(units, tab, buf, off, installed, stored) ==
    IF units = <<>>
    THEN [tab |-> tab, buf |-> buf, installed |-> installed, stored |-> stored, oobn |-> off]
    ELSE LET u    == Head(units)
             rest == Len(buf) * 4 - off
         IN  IF IsRights(u)
             THEN LET fdmax == IF rest >= SizeofCmsghdr
                               THEN (rest - SizeofCmsghdr) \div 4 ELSE 0
                      n     == Min(Len(u.files), fdmax)
                      ins   == InstallFds(tab, u.files, n, <<>>)
                  IN  IF n = 0
                      THEN KernelRecv(Tail(units), tab, buf, off, installed, stored)
                      ELSE KernelRecv(Tail(units), ins.tab,
                               WriteWords(buf, off,
                                   HeaderWords(CmsgLen(n * 4), u.Level, u.Type) \o ins.fds),
                               off + Min(CmsgSpace(n * 4), rest),
                               installed \o ins.fds, stored + 1)
             ELSE IF rest < SizeofCmsghdr
                  THEN KernelRecv(Tail(units), tab, buf, off, installed, stored)
                  ELSE LET cmlen == Min(CmsgLen(Len(u.data) * 4), rest)
                       IN  KernelRecv(Tail(units), tab,
                               WriteWords(buf, off,
                                   HeaderWords(cmlen, u.Level, u.Type)
                                   \o SubWords(u.data, 0, cmlen - SizeofCmsghdr)),
                               off + Min(CmsgSpace(Len(u.data) * 4), rest),
                               installed, stored + 1)

\* what a datagram in flight is: its ancillary units, and a record of how it
\* was sent (by Put or by a raw sendmsg of the peer) and of the resources
\* behind the handles the caller of Put passed, in the caller's order
Dgram(units, via, sent) == [units |-> units, via |-> via, sent |-> sent]
NoDgram == Dgram(<<>>, "none", <<>>)

----------------------------------------------------------------------------
(* The calls of package fd *)

\* an *os.File: a descriptor and a name
File(fd, name) == [fd |-> fd, name |-> name]

Peer(p) == IF p = Sender THEN Receiver ELSE Sender

\* a connection is open while its descriptor is; its owner may close it
ConnOpen(p) == fdtab[p][ConnFd] # NoRes

\* the record of a call kept in last
Call(op, num, filenames, files) ==
    [op |-> op, num |-> num, filenames |-> filenames, files |-> files,
     res |-> <<>>, err |-> "nil", trace |-> <<>>,
     buflen |-> 0, oobn |-> 0, stored |-> 0, installed |-> <<>>, dgram |-> NoDgram]

\* via.File() succeeds on an open connection with a free descriptor to
\* duplicate it to
FileOk(tab) == tab[ConnFd] # NoRes /\ FreeFds(tab) # {}

\* via.File(): a duplicate of the connection's socket at descriptor viaf
DupConn(tab, viaf) == [tab EXCEPT ![viaf] = tab[ConnFd]]

\* a deferred close that is missing: the duplicate stays open
DeferredCloseMissing(tab, viaf) == tab

\* defer viaf.Close()
DeferredClose(tab, viaf) == [tab EXCEPT ![viaf] = NoRes]

\* a fast path that lets num = 0 through
GetNoopNegative(num) == num < 0

\* Get, line 36: the fast path
GetNoop(num) == num < 1

\* a receive buffer sized for 8-byte descriptors
RecvBufSizeWide(num) == CmsgSpace(num * 8)

\* Get, line 49: the size of the receive buffer
RecvBufSize(num) == CmsgSpace(num * FdWidth)

\* Get, lines 66-69: the name given to the descriptor at index fi (from 0)
\* of the message being converted
FileName(fi, filenames) == IF fi < Len(filenames) THEN filenames[fi + 1] ELSE ""

\* Get, lines 65-72: the files made from the descriptors of one message
FilesOf(fds, filenames) ==
    [k \in 1..Len(fds) |-> File(fds[k], FileName(k - 1, filenames))]

\* Get, lines 60-73: for i := 0; i < len(msgs) && err == nil; i++
RECURSIVE GetLoop(_, _, _, _, _)
GetLoop(msgs, i, err, res, filenames) ==
    IF i < Len(msgs) /\ err = "nil"
    THEN LET pr == ParseUnixRights(msgs[i + 1])
         IN  GetLoop(msgs, i + 1, pr.err, res \o FilesOf(pr.fds, filenames), filenames)
    ELSE [res |-> res, err |-> err]

\* Get, lines 55-75: parse the whole buffer, convert, return res and err
GetParse(buf, filenames) ==
    LET p == ParseSocketControlMessage(buf)
    IN  GetLoop(p.msgs, 0, p.err, <<>>, filenames)

\* the caller of Get still holds files Get returned to it
Pending == last.op = "Get" /\ last.res # <<>>

\* Get(via, num, filenames).  Recvmsg takes the datagram in flight; with none
\* in flight it returns nothing and no error once the peer has closed its end,
\* and otherwise blocks, which ends only by an interrupt (EINTR).
Get(p, num, filenames) ==
    LET c    == Call("Get", num, filenames, <<>>)
        tab  == fdtab[p]
    IN  /\ ~Pending
        /\ IF GetNoop(num)
           THEN /\ last' = c
                /\ UNCHANGED <<fdtab, inflight>>
           ELSE IF ~FileOk(tab)
           THEN /\ last' = [c EXCEPT !.err = "ErrClosed", !.trace = <<"File">>]
                /\ UNCHANGED <<fdtab, inflight>>
           ELSE
             LET viaf == LowestFree(tab)
                 tab1 == DupConn(tab, viaf)
                 size == RecvBufSize(num)
             IN  IF inflight = <<>> /\ ConnOpen(Peer(p))
                 THEN /\ fdtab' = [fdtab EXCEPT ![p] = DeferredClose(tab1, viaf)]
                      /\ last' = [c EXCEPT !.err = "EINTR", !.buflen = size,
                                           !.trace = <<"File", "make", "Recvmsg", "Close">>]
                      /\ UNCHANGED inflight
                 ELSE /\ Cardinality(Handles(tab)) <= MaxHeld
                      /\ LET d   == IF inflight = <<>> THEN Dgram(<<>>, "eof", <<>>)
                                    ELSE Head(inflight)
                             r   == KernelRecv(d.units, tab1, Zeros(size), 0, <<>>, 0)
                             out == GetParse(r.buf, filenames)
                         IN  /\ fdtab' = [fdtab EXCEPT ![p] = DeferredClose(r.tab, viaf)]
                             /\ inflight' = <<>>
                             /\ last' = [c EXCEPT !.res = out.res, !.err = out.err,
                                                  !.buflen = size,
                                                  !.oobn = r.oobn,
                                                  !.stored = r.stored,
                                                  !.installed = r.installed,
                                                  !.dgram = d,
                                                  !.trace = <<"File", "make", "Recvmsg", "Close">>]

\* a Put without its fast path
PutNoopNever(files) == FALSE

\* Put, line 84: the fast path
PutNoop(files) == Len(files) = 0

\* descriptors collected in the reverse order
PutFdsReversed(files) == [i \in 1..Len(files) |-> files[Len(files) + 1 - i].fd]

\* Put, lines 95-98: fds[i] = int(files[i].Fd())
PutFds(files) == [i \in 1..Len(files) |-> files[i].fd]

\* a Put that takes ownership: it closes the files it sent
PutReleaseAll(tab, viaf, fds) ==
    [fd \in Fds |-> IF fd = viaf \/ fd \in {fds[k] : k \in 1..Len(fds)} THEN NoRes ELSE tab[fd]]

\* Put, lines 93-101: on return the deferred close releases the duplicate and
\* nothing else; the descriptors fds that were sent stay open
PutRelease(tab, viaf, fds) == DeferredClose(tab, viaf)

\* Put(via, files...).  Sendmsg fails with EPIPE once the peer has closed its
\* end, and otherwise returns once the socket has taken the datagram, which it
\* does when no other datagram is in flight.
Put(p, files) ==
    LET c   == Call("Put", 0, <<>>, files)
        tab == fdtab[p]
    IN  /\ ~Pending
        /\ IF PutNoop(files)
           THEN /\ last' = c
                /\ UNCHANGED <<fdtab, inflight>>
           ELSE IF ~FileOk(tab)
           THEN /\ last' = [c EXCEPT !.err = "ErrClosed", !.trace = <<"File">>]
                /\ UNCHANGED <<fdtab, inflight>>
           ELSE
             LET viaf   == LowestFree(tab)
                 tab1   == DupConn(tab, viaf)
                 fds    == PutFds(files)
                 rights == UnixRights(fds)
                 sent   == [i \in 1..Len(files) |-> tab[files[i].fd]]
             IN  /\ fdtab' = [fdtab EXCEPT ![p] = PutRelease(tab1, viaf, fds)]
                 /\ IF ConnOpen(Peer(p))
                    THEN /\ inflight = <<>>
                         /\ inflight' = <<Dgram(KernelSend(tab1, rights), "Put", sent)>>
                         /\ last' = [c EXCEPT !.buflen = Len(rights) * 4,
                                              !.trace = <<"File", "Sendmsg", "Close">>]
                    ELSE /\ inflight' = inflight
                         /\ last' = [c EXCEPT !.err = "EPIPE", !.buflen = Len(rights) * 4,
                                              !.trace = <<"File", "Sendmsg", "Close">>]

----------------------------------------------------------------------------
(* The callers and the peer *)

\* the peer sends a datagram with its own sendmsg: any ancillary units
PeerSendmsg(units) ==
    /\ ~Pending
    /\ ConnOpen(Sender) /\ ConnOpen(Receiver)
    /\ inflight = <<>>
    /\ inflight' = <<Dgram(units, "raw", <<>>)>>
    /\ last' = Call("PeerSendmsg", 0, <<>>, <<>>)
    /\ UNCHANGED fdtab

\* the caller of Get closes the files Get returned to it
CloseReturned(p) ==
    /\ Pending
    /\ fdtab' = [fdtab EXCEPT ![p] =
                    [fd \in Fds |-> IF \E k \in 1..Len(last.res) : last.res[k].fd = fd
                                    THEN NoRes ELSE fdtab[p][fd]]]
    /\ last' = Call("Close", 0, <<>>, last.res)
    /\ UNCHANGED inflight

\* the owner of a connection closes it, when nothing is in flight
CloseConn(p) ==
    /\ ~Pending
    /\ ConnOpen(p)
    /\ inflight = <<>>
    /\ fdtab' = [fdtab EXCEPT ![p][ConnFd] = NoRes]
    /\ last' = Call("CloseConn", 0, <<>>, <<>>)
    /\ UNCHANGED inflight

SeqsUpTo(S, n) == UNION {[1..k -> S] : k \in 0..n}

\* the files process p may pass to Put: the handles it owns
OwnedFiles(p) == {File(fd, "") : fd \in Handles(fdtab[p])}

Filenames == {<<>>, <<"first">>, <<"first", "second">>}

RawUnits ==
    {<<>>, <<CredUnit>>,
     <<CredUnit, RightsUnit(<<"r1">>)>>,
     <<RightsUnit(<<"r1">>), CredUnit>>,
     <<RightsUnit(<<"r1">>), RightsUnit(<<"r2">>)>>}

Init ==
    /\ fdtab = [p \in Procs |->
                 [fd \in Fds |->
                    IF fd = ConnFd THEN Sock(p)
                    ELSE IF p = Sender /\ fd = 1 THEN "r1"
                    ELSE IF p = Sender /\ fd = 2 THEN "r2"
                    ELSE NoRes]]
    /\ inflight = <<>>
    /\ last = Call("init", 0, <<>>, <<>>)

Next ==
    \/ \E files \in SeqsUpTo(OwnedFiles(Sender), MaxPut) : Put(Sender, files)
    \/ \E num \in (-1)..MaxNum, filenames \in Filenames : Get(Receiver, num, filenames)
    \/ \E units \in RawUnits : PeerSendmsg(units)
    \/ CloseReturned(Receiver)
    \/ \E p \in Procs : CloseConn(p)

Spec == Init /\ [][Next]_vars

----------------------------------------------------------------------------
(* Properties *)

\* the last call was a Get whose Recvmsg returned without error
Received == last.op = "Get" /\ last.dgram.via # "none"

\* the descriptors of a sequence of files
FdsOf(res) == [k \in 1..Len(res) |-> res[k].fd]

Range(f) == {f[k] : k \in DOMAIN f}

\* the name the i-th file of the flattened result is to have
NameAt(i, filenames) == IF i <= Len(filenames) THEN filenames[i] ELSE ""

\* C1: after a successful receive, the i-th file of Get's flattened result
\* (counted across all the control messages of the buffer) is named
\* filenames[i] when there is such a name, and has the empty name otherwise.
C1_NamePairing ==
    Received => \A i \in 1..Len(last.res) : last.res[i].name = NameAt(i, last.filenames)

\* C2: when the buffer received holds several control messages, the first a
\* complete rights message, and parsing fails further on, Get returns the
\* files of the first message together with the error, not an empty result.
C2_PartialFailure ==
    (/\ Received
     /\ last.stored >= 2
     /\ IsRights(last.dgram.units[1])
     /\ Len(last.installed) >= Len(last.dgram.units[1].files)
     /\ last.err # "nil")
    => /\ Len(last.res) >= Len(last.dgram.units[1].files)
       /\ \A i \in 1..Len(last.dgram.units[1].files) : last.res[i].fd = last.installed[i]

\* C3: when the buffer received holds a control message that is not a rights
\* message next to rights messages, and is filled to its end, Get returns the
\* descriptors of every rights message and reports no error.
C3_SkipNonRights ==
    (/\ Received
     /\ \E k \in 1..Len(last.dgram.units) : ~IsRights(last.dgram.units[k])
     /\ last.stored = Len(last.dgram.units)
     /\ last.installed # <<>>
     /\ last.oobn = last.buflen)
    => /\ last.err = "nil"
       /\ FdsOf(last.res) = last.installed

\* C4: a Get(conn, n, names) that receives what one Put of n files sent
\* returns, without error, exactly n files at n different descriptors, the
\* i-th of them open on the resource of the i-th file given to Put.
C4_OrderPreserved ==
    (Received /\ last.dgram.via = "Put" /\ last.num = Len(last.dgram.sent))
    => /\ last.err = "nil"
       /\ Len(last.res) = last.num
       /\ Cardinality(Range(FdsOf(last.res))) = last.num
       /\ \A i \in 1..last.num : fdtab[Receiver][last.res[i].fd] = last.dgram.sent[i]

C4_Witness ==
    /\ Received /\ last.dgram.via = "Put" /\ last.num = 3
    /\ last.dgram.sent = <<"r2", "r1", "r2">>

\* no descriptor other than a connection's own is open on a socket
NoDuplicateOpen ==
    \A p \in Procs : \A fd \in Fds \ {ConnFd} : fdtab[p][fd] \notin {Sock(q) : q \in Procs}

\* C5: whatever way a Get or a Put returns, the duplicate of the socket it
\* made is closed again, so that no duplicate is open after any call, and
\* the call leaves the connection itself as it was.
C5_DuplicateReleased ==
    [][last'.op \in {"Get", "Put"}
         => /\ NoDuplicateOpen'
            /\ \A p \in Procs : fdtab'[p][ConnFd] = fdtab[p][ConnFd]
            /\ (last'.trace # <<>> /\ last'.err # "ErrClosed"
                  => last'.trace[Len(last'.trace)] = "Close")]_vars

\* a Get that duplicated the socket, received, and failed to parse
C5_Witness ==
    /\ Received /\ last.err = "EINVAL" /\ last.installed # <<>>
    /\ last.trace = <<"File", "make", "Recvmsg", "Close">>
    /\ ConnOpen(Receiver)

\* C6: a Get with num < 1 returns no file and no error, and does so without
\* duplicating the socket, allocating a buffer or receiving: no descriptor
\* table and no datagram in flight is touched, whatever the connection's state.
C6_GetZeroNoop ==
    [][last'.op = "Get" /\ last'.num < 1
         => /\ last'.res = <<>> /\ last'.err = "nil"
            /\ last'.trace = <<>> /\ last'.buflen = 0
            /\ fdtab' = fdtab /\ inflight' = inflight]_vars

\* a Get with num < 1 on a closed connection, where via.File() would fail
C6_Witness ==
    last.op = "Get" /\ last.num < 1 /\ last.filenames # <<>> /\ ~ConnOpen(Receiver)

\* C7: a Put of no files returns no error, and does so without duplicating
\* the socket or sending, whatever the connection's state.
C7_PutZeroNoop ==
    [][last'.op = "Put" /\ last'.files = <<>>
         => /\ last'.err = "nil" /\ last'.trace = <<>>
            /\ fdtab' = fdtab /\ inflight' = inflight]_vars

\* a Put of no files on a closed connection, where via.File() would fail
C7_Witness ==
    last.op = "Put" /\ last.files = <<>> /\ ~ConnOpen(Sender)

\* C8: when Put returns, with or without an error, every file the caller
\* passed is open as before: the caller's descriptor table is what it was.
C8_PutKeepsFiles ==
    [][last'.op = "Put" => fdtab'[Sender] = fdtab[Sender]]_vars

\* a Put of two different files that sent them
C8_Witness ==
    /\ last.op = "Put" /\ last.err = "nil" /\ Len(last.files) = 2
    /\ last.files[1].fd # last.files[2].fd
    /\ inflight # <<>>

\* C9: when Get receives what one Put of k files sent, 1 <= k <= num, every
\* descriptor the kernel installed in the receiver is among the files returned.
C9_NoLeak ==
    (/\ Received /\ last.dgram.via = "Put"
     /\ 1 <= Len(last.dgram.sent) /\ Len(last.dgram.sent) <= last.num)
    => Range(last.installed) \subseteq Range(FdsOf(last.res))

\* C10 as claimed: Get(conn, num, names) returns at most num files.
C10_AtMostNum ==
    (last.op = "Get" /\ last.num >= 1) => Len(last.res) <= last.num

\* C10 as amended: Get(conn, num, names) returns at most as many files as
\* 4-byte descriptors fit the payload of its buffer: num for an even num,
\* num + 1 for an odd num.
C10_AtMostBufferRoom ==
    (last.op = "Get" /\ last.num >= 1) => Len(last.res) <= last.num + (last.num % 2)

\* a Get(conn, 1, names) that returned two files
C10_Witness ==
    last.op = "Get" /\ last.num = 1 /\ Len(last.res) = 2

====
